---- MODULE Spec2Model ----
(***************************************************************************)
(* Model of src/src/duration.rs: the parser of human-friendly durations    *)
(* (Parser::parse_first_char, Parser::parse_unit, Parser::parse,           *)
(* parse_duration) and the formatter (format_duration, item_plural, item,  *)
(* Display for FormattedDuration).                                         *)
(*                                                                         *)
(* A string is a sequence of characters; a character is a one-character    *)
(* TLA+ string, except the two non-ASCII characters the model uses, which  *)
(* are named: "micro" is U+00B5 (two bytes in UTF-8) and "nbsp" is U+00A0  *)
(* (two bytes, char::is_whitespace is true for it).                        *)
(*                                                                         *)
(* A u64 is kept at its full width.  TLC's integers have 32 bits, so a u64 *)
(* is a sequence of base-10000 limbs, least significant first, without     *)
(* leading zero limbs (0 is the empty sequence).  The operators on limb    *)
(* sequences bind their arguments as values ({f(x) : x \in {a}}) before    *)
(* they recurse, so that TLC evaluates an argument once.                   *)
(***************************************************************************)
EXTENDS Integers, Sequences, FiniteSets, TLC

(***************************************************************************)
(* The state: the fields of struct Parser (src, iter, current), the locals *)
(* of Parser::parse (n, off, start), the place parse has reached (pc) and  *)
(* what parse_duration returned (result).  given records how the input     *)
(* was given: a raw string, a sequence of tokens, or a Duration that is    *)
(* formatted and whose rendering is then parsed.                           *)
(***************************************************************************)
VARIABLES src, iter, current, n, off, start, pc, result, given

(***************************************************************************)
(* Unbounded naturals as limb sequences.                                   *)
(***************************************************************************)
Base == 10 ^ 4

RECURSIVE BNorm(_)
BNorm(a) ==
    IF a = <<>> THEN <<>>
    ELSE IF a[Len(a)] = 0 THEN BNorm(SubSeq(a, 1, Len(a) - 1))
    ELSE a

RECURSIVE BFromInt(_)
BFromInt(i) ==
    IF i = 0 THEN <<>> ELSE <<i % Base>> \o BFromInt(i \div Base)

RECURSIVE BAddC(_, _, _)
BAddC(a, b, c) ==
    IF a = <<>> /\ b = <<>> THEN (IF c = 0 THEN <<>> ELSE <<c>>)
    ELSE LET x == IF a = <<>> THEN 0 ELSE Head(a)
             y == IF b = <<>> THEN 0 ELSE Head(b)
             s == x + y + c
         IN <<s % Base>> \o BAddC(IF a = <<>> THEN <<>> ELSE Tail(a),
                                  IF b = <<>> THEN <<>> ELSE Tail(b),
                                  s \div Base)

BAdd(a, b) ==
    CHOOSE r \in {BNorm(BAddC(x, y, 0)) : x \in {a}, y \in {b}} : TRUE

\* a * k for one limb k < Base
RECURSIVE BMulLimbC(_, _, _)
BMulLimbC(a, k, c) ==
    IF a = <<>> THEN (IF c = 0 THEN <<>> ELSE <<c>>)
    ELSE LET p == Head(a) * k + c
         IN <<p % Base>> \o BMulLimbC(Tail(a), k, p \div Base)

RECURSIVE BMulV(_, _)
BMulV(a, b) ==
    IF b = <<>> THEN <<>>
    ELSE BAdd(BNorm(BMulLimbC(a, Head(b), 0)),
              LET r == BMulV(a, Tail(b)) IN IF r = <<>> THEN <<>> ELSE <<0>> \o r)

BMul(a, b) == CHOOSE r \in {BMulV(x, y) : x \in {a}, y \in {b}} : TRUE

\* a < b
RECURSIVE BLtSameLen(_, _)
BLtSameLen(a, b) ==
    IF a = <<>> THEN FALSE
    ELSE LET top == Len(a)
         IN IF a[top] # b[top] THEN a[top] < b[top]
            ELSE BLtSameLen(SubSeq(a, 1, top - 1), SubSeq(b, 1, top - 1))

BLt(a, b) ==
    \E x \in {a}, y \in {b} :
        IF Len(x) # Len(y) THEN Len(x) < Len(y) ELSE BLtSameLen(x, y)

BLe(a, b) == ~BLt(b, a)

\* <<a \div k, a % k>> for a small divisor k (k * Base fits TLC's integers);
\* the quotient is a limb sequence, the remainder an integer.
RECURSIVE BDivModSmallR(_, _)
BDivModSmallR(a, k) ==
    IF a = <<>> THEN <<<<>>, 0>>
    ELSE LET hi == BDivModSmallR(Tail(a), k)
             cur == hi[2] * Base + Head(a)
         IN <<(<<cur \div k>> \o hi[1]), cur % k>>

BDivModSmall(a, k) ==
    CHOOSE q \in {<<BNorm(r[1]), r[2]>> :
                    r \in {BDivModSmallR(x, k) : x \in {a}}} : TRUE

\* <<a \div d, a % d>> for d the product of the small factors fs, by
\* floor(floor(a / f1) / f2) = floor(a / (f1 * f2)); d fits TLC's integers,
\* so the remainder is an integer.
RECURSIVE BDivModFactors(_, _)
BDivModFactors(a, fs) ==
    IF fs = <<>> THEN <<a, 0>>
    ELSE LET one == BDivModSmall(a, Head(fs))
             rest == BDivModFactors(one[1], Tail(fs))
         IN <<rest[1], one[2] + Head(fs) * rest[2]>>

(***************************************************************************)
(* Characters and strings.                                                 *)
(***************************************************************************)
DigitChars == <<"0", "1", "2", "3", "4", "5", "6", "7", "8", "9">>

\* '0'..='9'
IsDigit(c) == \E d \in 1..10 : DigitChars[d] = c

\* c as u64 - '0' as u64
DigitValue(c) == (CHOOSE d \in 1..10 : DigitChars[d] = c) - 1

\* char::is_whitespace: the space and U+00A0
IsWhitespace(c) == c \in {" ", "nbsp"}

\* 'a'..='z' | 'A'..='Z'
IsAsciiLetter(c) ==
    c \in {"a", "b", "c", "d", "e", "f", "g", "h", "i", "j", "k", "l", "m",
           "n", "o", "p", "q", "r", "s", "t", "u", "v", "w", "x", "y", "z",
           "A", "B", "C", "D", "E", "F", "G", "H", "I", "J", "K", "L", "M",
           "N", "O", "P", "Q", "R", "S", "T", "U", "V", "W", "X", "Y", "Z"}

\* the length of a character's UTF-8 encoding, in bytes
Utf8Len(c) == IF c \in {"micro", "nbsp"} THEN 2 ELSE 1

\* str::len: the length of a string in bytes
RECURSIVE ByteLen(_)
ByteLen(s) == IF s = <<>> THEN 0 ELSE Utf8Len(Head(s)) + ByteLen(Tail(s))

\* &src[start..end]: the characters whose first byte lies in start..end-1
RECURSIVE ByteSliceFrom(_, _, _, _)
ByteSliceFrom(s, at, from, to) ==
    IF s = <<>> THEN <<>>
    ELSE (IF from <= at /\ at < to THEN <<Head(s)>> ELSE <<>>)
         \o ByteSliceFrom(Tail(s), at + Utf8Len(Head(s)), from, to)

ByteSlice(s, from, to) == ByteSliceFrom(s, 0, from, to)

(***************************************************************************)
(* u64 and its checked arithmetic (trait OverflowOp).                      *)
(***************************************************************************)
\* u64::MAX = 18446744073709551615
U64_MAX == <<1615, 955, 737, 6744, 1844>>

Checked(v) == IF BLe(v, U64_MAX) THEN [ok |-> TRUE, v |-> v]
              ELSE [ok |-> FALSE, v |-> <<>>]

\* self.checked_mul(other).ok_or(Error::NumberOverflow)
mul(a, b) == Checked(BMul(a, b))

\* self.checked_add(other).ok_or(Error::NumberOverflow)
add(a, b) == Checked(BAdd(a, b))

(***************************************************************************)
(* Results of parse_duration.                                              *)
(***************************************************************************)
NoResult == [tag |-> "None"]
Ok(secs, nanos) == [tag |-> "Ok", secs |-> secs, nanos |-> nanos]
ErrEmpty == [tag |-> "Err", kind |-> "Empty"]
ErrNumberOverflow == [tag |-> "Err", kind |-> "NumberOverflow"]
ErrInvalidCharacter(offset) ==
    [tag |-> "Err", kind |-> "InvalidCharacter", offset |-> offset]
ErrNumberExpected(offset) ==
    [tag |-> "Err", kind |-> "NumberExpected", offset |-> offset]
ErrUnknownUnit(from, to, unit, value) ==
    [tag |-> "Err", kind |-> "UnknownUnit", start |-> from, end |-> to,
     unit |-> unit, value |-> value]
\* the call does not return: a panic unwinds out of parse_duration
Panicked == [tag |-> "Panic"]

NANOS_PER_SEC == 1000000000

\* Duration::new(secs, nanos) of std::time, as called at the end of parse:
\* nanos of a second or more are carried into secs, and the carry panics
\* ("overflow in Duration::new") when secs overflows.
Duration_new(secs, nanos) ==
    IF nanos < NANOS_PER_SEC THEN Ok(secs, nanos)
    ELSE LET s == add(secs, BFromInt(nanos \div NANOS_PER_SEC))
         IN IF s.ok THEN Ok(s.v, nanos % NANOS_PER_SEC) ELSE Panicked

\* x as u32
AsU32(x) == BDivModFactors(x, <<65536, 65536>>)[2]

(***************************************************************************)
(* Parser.  A parser state is a record of the fields of struct Parser      *)
(* (src, iter, current), the locals of parse (n, off, start), the place    *)
(* parse has reached (pc) and what parse_duration returned (result).       *)
(* iter is the number of characters the iterator has yielded.              *)
(*   pc = "first"   parse_first_char called at the top of parse            *)
(*   pc = "number"  the loop over the digits of a number                   *)
(*   pc = "unit"    the loop over the letters of a unit                    *)
(*   pc = "next"    parse_first_char called after a unit                   *)
(*   pc = "done"    parse_duration has returned (or panicked)              *)
(***************************************************************************)

\* Parser::off: src.len() - iter.as_str().len()
Off(st) == ByteLen(SubSeq(st.src, 1, st.iter))

\* return Err(e)
Fail(st, e) == [st EXCEPT !.pc = "done", !.result = e]

\* the match of parse_unit: which field the unit fills, and the multiplier
UnitTable(unit) ==
    CASE unit \in {
            <<"n", "a", "n", "o", "s">>, <<"n", "s", "e", "c">>, <<"n", "s">>}
        -> [kind |-> "nsec", k |-> 1]
      [] unit \in {
            <<"u", "s", "e", "c">>, <<"micro", "s">>}
        -> [kind |-> "nsec", k |-> 1000]
      [] unit \in {
            <<"m", "i", "l", "l", "i", "s">>, <<"m", "s", "e", "c">>, <<"m", "s">>}
        -> [kind |-> "nsec", k |-> 1000000]
      [] unit \in {
            <<"s", "e", "c", "o", "n", "d", "s">>,
            <<"s", "e", "c", "o", "n", "d">>, <<"s", "e", "c", "s">>,
            <<"s", "e", "c">>, <<"s">>}
        -> [kind |-> "sec", k |-> 1]
      [] unit \in {
            <<"m", "i", "n", "u", "t", "e", "s">>,
            <<"m", "i", "n", "u", "t", "e">>, <<"m", "i", "n">>,
            <<"m", "i", "n", "s">>, <<"m">>}
        -> [kind |-> "sec", k |-> 60]
      [] unit \in {
            <<"h", "o", "u", "r", "s">>, <<"h", "o", "u", "r">>, <<"h", "r">>,
            <<"h", "r", "s">>, <<"h">>}
        -> [kind |-> "sec", k |-> 3600]
      [] unit \in {
            <<"d", "a", "y", "s">>, <<"d", "a", "y">>, <<"d">>}
        -> [kind |-> "sec", k |-> 86400]
      [] unit \in {
            <<"w", "e", "e", "k", "s">>, <<"w", "e", "e", "k">>, <<"w">>}
        -> [kind |-> "sec", k |-> 86400 * 7]
      [] unit \in {
            <<"m", "o", "n", "t", "h", "s">>, <<"m", "o", "n", "t", "h">>, <<"M">>}
        -> [kind |-> "sec", k |-> 2630016]
      [] unit \in {
            <<"y", "e", "a", "r", "s">>, <<"y", "e", "a", "r">>, <<"y">>}
        -> [kind |-> "sec", k |-> 31557600]
      [] OTHER -> [kind |-> "unknown", k |-> 0]

\* Parser::parse_unit(n, start, end), here (num, from, to): the state with
\* the unit applied to current, or the failed state
parse_unit(st, num, from, to) ==
    LET unit == ByteSlice(st.src, from, to)
        m == UnitTable(unit)
    IN
    IF m.kind = "unknown" THEN Fail(st, ErrUnknownUnit(from, to, unit, num))
    ELSE
    LET prod == IF m.k = 1 THEN [ok |-> TRUE, v |-> num]
                ELSE mul(num, BFromInt(m.k))
    IN
    IF ~prod.ok THEN Fail(st, ErrNumberOverflow)
    ELSE
    LET sec0 == IF m.kind = "sec" THEN prod.v ELSE <<>>
        nsec0 == IF m.kind = "nsec" THEN prod.v ELSE <<>>
        nsec1 == add(st.current[2], nsec0)
    IN
    IF ~nsec1.ok THEN Fail(st, ErrNumberOverflow)
    ELSE
    LET carry == BLt(BFromInt(NANOS_PER_SEC), nsec1.v)
        qr == BDivModFactors(nsec1.v, <<10000, 10000, 10>>)
        sec1 == IF carry THEN add(sec0, qr[1]) ELSE [ok |-> TRUE, v |-> sec0]
        nsec2 == IF carry THEN BFromInt(qr[2]) ELSE nsec1.v
    IN
    IF ~sec1.ok THEN Fail(st, ErrNumberOverflow)
    ELSE
    LET sec2 == add(st.current[1], sec1.v)
    IN
    IF ~sec2.ok THEN Fail(st, ErrNumberOverflow)
    ELSE [st EXCEPT !.current = <<sec2.v, nsec2>>]

\* Parser::parse_first_char, one iteration of its loop.  off was read once,
\* when parse_first_char was entered.  At the end of the input it returns
\* Ok(None): Error::Empty at the top of parse, the Duration after a unit.
parse_first_char(st) ==
    IF st.iter = Len(st.src) THEN
        IF st.pc = "first" THEN Fail(st, ErrEmpty)
        ELSE [st EXCEPT !.pc = "done",
                        !.result = Duration_new(st.current[1],
                                                AsU32(st.current[2]))]
    ELSE
    LET c == st.src[st.iter + 1]
        adv == [st EXCEPT !.iter = @ + 1]
    IN
    IF IsDigit(c) THEN
        [adv EXCEPT !.n = BFromInt(DigitValue(c)), !.pc = "number",
                    !.off = Off(adv)]
    ELSE IF IsWhitespace(c) THEN adv
    ELSE Fail(adv, ErrNumberExpected(st.off))

\* number_loop with whitespace inside a number rejected
number_loop_no_whitespace(st) ==
    IF st.iter = Len(st.src) THEN
        [st EXCEPT !.start = st.off, !.off = Off(st), !.pc = "unit"]
    ELSE
    LET c == st.src[st.iter + 1]
        adv == [st EXCEPT !.iter = @ + 1]
    IN
    IF IsDigit(c) THEN
        LET m == mul(st.n, BFromInt(10))
            a == IF m.ok THEN add(m.v, BFromInt(DigitValue(c))) ELSE m
        IN IF a.ok THEN [adv EXCEPT !.n = a.v, !.off = Off(adv)]
           ELSE Fail(adv, ErrNumberOverflow)
    ELSE IF IsAsciiLetter(c) THEN
        [adv EXCEPT !.start = st.off, !.off = Off(adv), !.pc = "unit"]
    ELSE Fail(adv, ErrInvalidCharacter(st.off))

\* Parser::parse, one iteration of the first inner loop (the number); when
\* the loop ends: start = off, off = self.off()
number_loop(st) ==
    IF st.iter = Len(st.src) THEN
        [st EXCEPT !.start = st.off, !.off = Off(st), !.pc = "unit"]
    ELSE
    LET c == st.src[st.iter + 1]
        adv == [st EXCEPT !.iter = @ + 1]
    IN
    IF IsDigit(c) THEN
        LET m == mul(st.n, BFromInt(10))
            a == IF m.ok THEN add(m.v, BFromInt(DigitValue(c))) ELSE m
        IN IF a.ok THEN [adv EXCEPT !.n = a.v, !.off = Off(adv)]
           ELSE Fail(adv, ErrNumberOverflow)
    ELSE IF IsWhitespace(c) THEN [adv EXCEPT !.off = Off(adv)]
    ELSE IF IsAsciiLetter(c) THEN
        [adv EXCEPT !.start = st.off, !.off = Off(adv), !.pc = "unit"]
    ELSE Fail(adv, ErrInvalidCharacter(st.off))

\* Parser::parse after the second inner loop: parse_unit(n, start, off),
\* then parse_first_char is entered and reads self.off()
after_unit(st) ==
    LET r == parse_unit(st, st.n, st.start, st.off)
    IN IF r.pc = "done" THEN r
       ELSE [r EXCEPT !.pc = "next", !.off = Off(st)]

\* unit_loop with the unit dropped, not applied, when a digit ends it
unit_loop_digit_drops_unit(st) ==
    IF st.iter = Len(st.src) THEN after_unit(st)
    ELSE
    LET c == st.src[st.iter + 1]
        adv == [st EXCEPT !.iter = @ + 1]
    IN
    IF IsDigit(c) THEN
        [adv EXCEPT !.n = BFromInt(DigitValue(c)), !.pc = "number",
                    !.off = Off(adv)]
    ELSE IF IsWhitespace(c) THEN after_unit(adv)
    ELSE IF IsAsciiLetter(c) THEN [adv EXCEPT !.off = Off(adv)]
    ELSE Fail(adv, ErrInvalidCharacter(st.off))

\* Parser::parse, one iteration of the second inner loop (the unit)
unit_loop(st) ==
    IF st.iter = Len(st.src) THEN after_unit(st)
    ELSE
    LET c == st.src[st.iter + 1]
        adv == [st EXCEPT !.iter = @ + 1]
    IN
    IF IsDigit(c) THEN
        LET r == parse_unit(adv, st.n, st.start, st.off)
        IN IF r.pc = "done" THEN r
           ELSE [r EXCEPT !.n = BFromInt(DigitValue(c)), !.pc = "number",
                          !.off = Off(adv)]
    ELSE IF IsWhitespace(c) THEN after_unit(adv)
    ELSE IF IsAsciiLetter(c) THEN [adv EXCEPT !.off = Off(adv)]
    ELSE Fail(adv, ErrInvalidCharacter(st.off))

\* parse_duration(s): Parser { iter: s.chars(), src: s, current: (0, 0) }
NewParser(s) ==
    [src |-> s, iter |-> 0, current |-> <<<<>>, <<>>>>, n |-> <<>>,
     off |-> 0, start |-> 0, pc |-> "first", result |-> NoResult]

\* one step of Parser::parse
parse_step(st) ==
    CASE st.pc \in {"first", "next"} -> parse_first_char(st)
      [] st.pc = "number" -> number_loop(st)
      [] st.pc = "unit" -> unit_loop(st)

\* Parser::parse, run to its return
RECURSIVE parse(_)
parse(st) == IF st.pc = "done" THEN st.result ELSE parse(parse_step(st))

parse_duration(s) == parse(NewParser(s))

(***************************************************************************)
(* Formatter.                                                              *)
(***************************************************************************)
\* Display of an integer ("{}"): its decimal digits
RECURSIVE DecimalInt(_)
DecimalInt(i) ==
    IF i < 10 THEN <<DigitChars[i + 1]>>
    ELSE DecimalInt(i \div 10) \o <<DigitChars[(i % 10) + 1]>>

\* the four decimal digits of a limb that is not the most significant
Limb4(i) ==
    <<DigitChars[(i \div 1000) + 1], DigitChars[((i \div 100) % 10) + 1],
      DigitChars[((i \div 10) % 10) + 1], DigitChars[(i % 10) + 1]>>

RECURSIVE DecimalLimbs(_)
DecimalLimbs(a) ==
    IF Len(a) = 1 THEN DecimalInt(a[1])
    ELSE DecimalLimbs(Tail(a)) \o Limb4(Head(a))

\* Display of a u64 ("{}")
DecimalU64(a) == IF a = <<>> THEN <<"0">> ELSE DecimalLimbs(a)

\* the Formatter and the started flag fmt threads through its items
NewFormatter == [out |-> <<>>, started |-> FALSE]

\* item_plural with the "s" written for every value above 0
item_plural_s_from_1(f, name, value) ==
    IF BLt(<<>>, value) THEN
        [out |-> f.out \o (IF f.started THEN <<" ">> ELSE <<>>)
                       \o DecimalU64(value) \o name \o <<"s">>,
         started |-> TRUE]
    ELSE f

\* item_plural(f, started, name, value: u64)
item_plural(f, name, value) ==
    IF BLt(<<>>, value) THEN
        [out |-> f.out \o (IF f.started THEN <<" ">> ELSE <<>>)
                       \o DecimalU64(value) \o name
                       \o (IF BLt(<<1>>, value) THEN <<"s">> ELSE <<>>),
         started |-> TRUE]
    ELSE f

\* item(f, started, name, value: u32)
item(f, name, value) ==
    IF value > 0 THEN
        [out |-> f.out \o (IF f.started THEN <<" ">> ELSE <<>>)
                       \o DecimalInt(value) \o name,
         started |-> TRUE]
    ELSE f

\* <FormattedDuration as Display>::fmt: the string written
fmt(d) ==
    LET secs == d.secs
        nanos == d.nanos
    IN
    IF secs = <<>> /\ nanos = 0 THEN <<"0", "s">>
    ELSE
    LET yq == BDivModFactors(secs, <<7200, 4383>>)    \* 31_557_600
        years == yq[1]
        ydays == yq[2]
        months == ydays \div 2630016
        mdays == ydays % 2630016
        days == mdays \div 86400
        day_secs == mdays % 86400
        hours == day_secs \div 3600
        minutes == (day_secs % 3600) \div 60
        seconds == day_secs % 60
        millis == nanos \div 1000000
        micros == (nanos \div 1000) % 1000
        nanosec == nanos % 1000
        f1 == item_plural(NewFormatter, <<"y", "e", "a", "r">>, years)
        f2 == item_plural(f1, <<"m", "o", "n", "t", "h">>, BFromInt(months))
        f3 == item_plural(f2, <<"d", "a", "y">>, BFromInt(days))
        f4 == item(f3, <<"h">>, hours)
        f5 == item(f4, <<"m">>, minutes)
        f6 == item(f5, <<"s">>, seconds)
        f7 == item(f6, <<"m", "s">>, millis)
        f8 == item(f7, <<"micro", "s">>, micros)
        f9 == item(f8, <<"n", "s">>, nanosec)
    IN f9.out

\* format_duration(val).to_string()
format_duration(d) == fmt(d)

(***************************************************************************)
(* The inputs the model runs the program on.                               *)
(***************************************************************************)
MaxRawLen == 4
MaxTokens == 3
MaxPlural == 2

\* every string of at most MaxRawLen characters over these characters
RawAlphabet == {"1", "2", " ", "nbsp", "s", "u", "micro", "+"}
RawStrings == UNION {[1..k -> RawAlphabet] : k \in 0..MaxRawLen}

\* the spellings parse_unit matches
CodeSpellings == {
    <<"n", "a", "n", "o", "s">>, <<"n", "s", "e", "c">>, <<"n", "s">>,
    <<"u", "s", "e", "c">>, <<"micro", "s">>,
    <<"m", "i", "l", "l", "i", "s">>, <<"m", "s", "e", "c">>, <<"m", "s">>,
    <<"s", "e", "c", "o", "n", "d", "s">>, <<"s", "e", "c", "o", "n", "d">>,
    <<"s", "e", "c", "s">>, <<"s", "e", "c">>, <<"s">>,
    <<"m", "i", "n", "u", "t", "e", "s">>, <<"m", "i", "n", "u", "t", "e">>,
    <<"m", "i", "n">>, <<"m", "i", "n", "s">>, <<"m">>,
    <<"h", "o", "u", "r", "s">>, <<"h", "o", "u", "r">>, <<"h", "r">>,
    <<"h", "r", "s">>, <<"h">>, <<"d", "a", "y", "s">>, <<"d", "a", "y">>,
    <<"d">>, <<"w", "e", "e", "k", "s">>, <<"w", "e", "e", "k">>, <<"w">>,
    <<"m", "o", "n", "t", "h", "s">>, <<"m", "o", "n", "t", "h">>, <<"M">>,
    <<"y", "e", "a", "r", "s">>, <<"y", "e", "a", "r">>, <<"y">>}

\* further unit texts: "us" (documented, not matched) and unknown ones
OtherSpellings == {
    <<"u", "s">>, <<"x", "y", "z">>, <<"S">>, <<"s", "m">>}

\* u64::MAX and u64::MAX + 1 among the numbers of a single token;
\* 584542046090 is the largest number of years that fits
SingleNums == {
    <<"0">>, <<"1">>, <<"1", "2">>,
    <<"1", "0", "0", "0", "0", "0", "0", "0", "0", "0">>,
    <<"5", "8", "4", "5", "4", "2", "0", "4", "6", "0", "9", "0">>,
    <<"5", "8", "4", "5", "4", "2", "0", "4", "6", "0", "9", "1">>,
    <<"1", "8", "4", "4", "6", "7", "4", "4", "0", "7", "3", "7", "0", "9", "5", "5", "1", "6", "1", "5">>,
    <<"1", "8", "4", "4", "6", "7", "4", "4", "0", "7", "3", "7", "0", "9", "5", "5", "1", "6", "1", "6">>}

\* a token is a number and a unit, written after the whitespace sep
SingleTokens ==
    {<<[sep |-> <<>>, num |-> x, unit |-> u]>> :
        x \in SingleNums, u \in CodeSpellings \cup OtherSpellings}

Seps == {<<>>, <<" ">>, <<"nbsp", " ">>}

MultiPairs ==
    {<<<<"1">>, <<"s">>>>, <<<<"3">>, <<"h">>>>,
     <<<<"5", "0", "0">>, <<"m", "s">>>>, <<<<"1">>, <<"x">>>>,
     <<<<"1", "8", "4", "4", "6", "7", "4", "4", "0", "7", "3", "7", "0", "9", "5", "5", "1", "6", "1", "5">>, <<"s">>>>}

MultiTokenSet ==
    {[sep |-> w, num |-> p[1], unit |-> p[2]] : w \in Seps, p \in MultiPairs}

MultiTokens ==
    {t \in UNION {[1..k -> MultiTokenSet] : k \in 2..MaxTokens} :
        t[1].sep = <<>>}

\* the examples of the documentation, as tokens
ExampleTokens ==
    {<<[sep |-> <<>>, num |-> <<"1">>, unit |-> <<"h">>],
      [sep |-> <<>>, num |-> <<"2">>, unit |-> <<"m">>],
      [sep |-> <<>>, num |-> <<"3">>, unit |-> <<"s">>]>>,
     <<[sep |-> <<>>, num |-> <<"1">>, unit |-> <<"h">>],
      [sep |-> <<" ">>, num |-> <<"2">>, unit |-> <<"m">>],
      [sep |-> <<" ">>, num |-> <<"3">>, unit |-> <<"s">>]>>,
     <<[sep |-> <<>>, num |-> <<"2">>, unit |-> <<"h">>],
      [sep |-> <<>>, num |-> <<"3", "7">>, unit |-> <<"m", "i", "n">>]>>,
     <<[sep |-> <<>>, num |-> <<"2">>, unit |-> <<"h">>],
      [sep |-> <<" ">>, num |-> <<"3", "7">>, unit |-> <<"m", "i", "n">>]>>,
     <<[sep |-> <<>>, num |-> <<"1">>, unit |-> <<"y", "e", "a", "r">>],
      [sep |-> <<" ">>, num |-> <<"2">>, unit |-> <<"y", "e", "a", "r", "s">>]>>,
     <<[sep |-> <<>>, num |-> <<"9", "9", "9">>, unit |-> <<"m", "s">>],
      [sep |-> <<" ">>, num |-> <<"9", "9", "9">>, unit |-> <<"micro", "s">>],
      [sep |-> <<" ">>, num |-> <<"9", "9", "9">>, unit |-> <<"n", "s">>]>>,
     <<[sep |-> <<>>, num |-> <<"1", "8", "4", "4", "6", "7", "4", "4", "0", "7", "3", "7", "0", "9", "5", "5", "1", "6", "1", "5">>, unit |-> <<"s">>],
      [sep |-> <<" ">>, num |-> <<"1", "0", "0", "0", "0", "0", "0", "0", "0", "0">>, unit |-> <<"n", "s">>]>>,
     <<[sep |-> <<>>, num |-> <<"1", "8", "4", "4", "6", "7", "4", "4", "0", "7", "3", "7", "0", "9", "5", "5", "1">>, unit |-> <<"s">>],
      [sep |-> <<>>, num |-> <<"1", "0", "0", "0">>, unit |-> <<"m", "s">>]>>}

TokenInputs == SingleTokens \cup MultiTokens \cup ExampleTokens

\* the string the tokens are written as
RECURSIVE Render(_)
Render(ts) ==
    IF ts = <<>> THEN <<>>
    ELSE Head(ts).sep \o Head(ts).num \o Head(ts).unit \o Render(Tail(ts))

\* the Durations given to format_duration: 0..MaxPlural years, months and
\* days, with and without each smaller component, and the largest Duration
Durations ==
    {[secs |-> BFromInt(y * 31557600 + mo * 2630016 + dd * 86400
                        + h * 3600 + m * 60 + s),
      nanos |-> ms * 1000000 + us * 1000 + ns] :
        y \in 0..MaxPlural, mo \in 0..MaxPlural, dd \in 0..MaxPlural,
        h \in {0, 23}, m \in {0, 59}, s \in {0, 59},
        ms \in {0, 999}, us \in {0, 999}, ns \in {0, 999}}
    \cup {[secs |-> U64_MAX, nanos |-> 999999999],
          [secs |-> U64_MAX, nanos |-> 0]}

ZeroDuration == [secs |-> <<>>, nanos |-> 0]

(***************************************************************************)
(* The state machine: the steps of parse_duration on the input, after      *)
(* format_duration when the input is a Duration.                           *)
(***************************************************************************)
vars == <<src, iter, current, n, off, start, pc, result, given>>

St == [src |-> src, iter |-> iter, current |-> current, n |-> n,
       off |-> off, start |-> start, pc |-> pc, result |-> result]

Load(st) ==
    /\ src' = st.src
    /\ iter' = st.iter
    /\ current' = st.current
    /\ n' = st.n
    /\ off' = st.off
    /\ start' = st.start
    /\ pc' = st.pc
    /\ result' = st.result

Init ==
    /\ \/ \E s \in RawStrings :
            /\ given = [kind |-> "raw", toks |-> <<>>, val |-> ZeroDuration]
            /\ src = s
            /\ pc = "first"
       \/ \E ts \in TokenInputs :
            /\ given = [kind |-> "tokens", toks |-> ts, val |-> ZeroDuration]
            /\ src = Render(ts)
            /\ pc = "first"
       \/ \E d \in Durations :
            /\ given = [kind |-> "format", toks |-> <<>>, val |-> d]
            /\ src = <<>>
            /\ pc = "format"
    /\ iter = 0
    /\ current = <<<<>>, <<>>>>
    /\ n = <<>>
    /\ off = 0
    /\ start = 0
    /\ result = NoResult

\* format_duration(val).to_string(), handed to parse_duration
Format ==
    /\ pc = "format"
    /\ Load(NewParser(format_duration(given.val)))
    /\ UNCHANGED given

ParseFirstChar ==
    /\ pc \in {"first", "next"}
    /\ Load(parse_first_char(St))
    /\ UNCHANGED given

NumberLoop ==
    /\ pc = "number"
    /\ Load(number_loop(St))
    /\ UNCHANGED given

UnitLoop ==
    /\ pc = "unit"
    /\ Load(unit_loop(St))
    /\ UNCHANGED given

Next == Format \/ ParseFirstChar \/ NumberLoop \/ UnitLoop

Spec == Init /\ [][Next]_vars

(***************************************************************************)
(* What the claims are stated with.                                        *)
(***************************************************************************)
Done == pc = "done"

\* the number a string of decimal digits denotes, exactly
RECURSIVE Number(_)
Number(ds) ==
    IF ds = <<>> THEN <<>>
    ELSE BAdd(BMul(Number(SubSeq(ds, 1, Len(ds) - 1)), <<10>>),
              BFromInt(DigitValue(ds[Len(ds)])))

\* the documented unit table: the spellings and the multiplier of each
DocumentedSpellings == {
    <<"n", "s">>, <<"n", "s", "e", "c">>, <<"n", "a", "n", "o", "s">>,
    <<"u", "s">>, <<"micro", "s">>, <<"u", "s", "e", "c">>, <<"m", "s">>,
    <<"m", "s", "e", "c">>, <<"m", "i", "l", "l", "i", "s">>, <<"s">>,
    <<"s", "e", "c">>, <<"s", "e", "c", "s">>,
    <<"s", "e", "c", "o", "n", "d">>, <<"s", "e", "c", "o", "n", "d", "s">>,
    <<"m">>, <<"m", "i", "n">>, <<"m", "i", "n", "s">>,
    <<"m", "i", "n", "u", "t", "e">>, <<"m", "i", "n", "u", "t", "e", "s">>,
    <<"h">>, <<"h", "r">>, <<"h", "r", "s">>, <<"h", "o", "u", "r">>,
    <<"h", "o", "u", "r", "s">>, <<"d">>, <<"d", "a", "y">>,
    <<"d", "a", "y", "s">>, <<"w">>, <<"w", "e", "e", "k">>,
    <<"w", "e", "e", "k", "s">>, <<"M">>, <<"m", "o", "n", "t", "h">>,
    <<"m", "o", "n", "t", "h", "s">>, <<"y">>, <<"y", "e", "a", "r">>,
    <<"y", "e", "a", "r", "s">>}

DocumentedUnit(u) ==
    CASE u \in {
            <<"n", "s">>, <<"n", "s", "e", "c">>, <<"n", "a", "n", "o", "s">>}
        -> [kind |-> "nsec", k |-> 1]
      [] u \in {
            <<"u", "s">>, <<"micro", "s">>, <<"u", "s", "e", "c">>}
        -> [kind |-> "nsec", k |-> 1000]
      [] u \in {
            <<"m", "s">>, <<"m", "s", "e", "c">>, <<"m", "i", "l", "l", "i", "s">>}
        -> [kind |-> "nsec", k |-> 1000000]
      [] u \in {
            <<"s">>, <<"s", "e", "c">>, <<"s", "e", "c", "s">>,
            <<"s", "e", "c", "o", "n", "d">>,
            <<"s", "e", "c", "o", "n", "d", "s">>}
        -> [kind |-> "sec", k |-> 1]
      [] u \in {
            <<"m">>, <<"m", "i", "n">>, <<"m", "i", "n", "s">>,
            <<"m", "i", "n", "u", "t", "e">>,
            <<"m", "i", "n", "u", "t", "e", "s">>}
        -> [kind |-> "sec", k |-> 60]
      [] u \in {
            <<"h">>, <<"h", "r">>, <<"h", "r", "s">>, <<"h", "o", "u", "r">>,
            <<"h", "o", "u", "r", "s">>}
        -> [kind |-> "sec", k |-> 3600]
      [] u \in {
            <<"d">>, <<"d", "a", "y">>, <<"d", "a", "y", "s">>}
        -> [kind |-> "sec", k |-> 86400]
      [] u \in {
            <<"w">>, <<"w", "e", "e", "k">>, <<"w", "e", "e", "k", "s">>}
        -> [kind |-> "sec", k |-> 604800]
      [] u \in {
            <<"M">>, <<"m", "o", "n", "t", "h">>, <<"m", "o", "n", "t", "h", "s">>}
        -> [kind |-> "sec", k |-> 2630016]
      [] u \in {
            <<"y">>, <<"y", "e", "a", "r">>, <<"y", "e", "a", "r", "s">>}
        -> [kind |-> "sec", k |-> 31557600]

\* the Duration of an exact number of nanoseconds / of seconds
OkOfNanos(x) ==
    LET qr == BDivModFactors(x, <<10000, 10000, 10>>) IN Ok(qr[1], qr[2])

\* what a token contributes, in nanoseconds, when m is its unit's entry
TokenNanos(t, m) ==
    BMul(Number(t.num),
         IF m.kind = "sec" THEN BMul(BFromInt(m.k), BFromInt(NANOS_PER_SEC))
         ELSE BFromInt(m.k))

\* the exact sum of what the tokens contribute, by the units parse_unit matches
RECURSIVE SumNanos(_)
SumNanos(ts) ==
    IF ts = <<>> THEN <<>>
    ELSE BAdd(TokenNanos(Head(ts), UnitTable(Head(ts).unit)),
              SumNanos(Tail(ts)))

\* the same Ok value, or an error of the same variant, or both panicked
SameOutcome(r1, r2) ==
    /\ r1.tag = r2.tag
    /\ r1.tag = "Ok" => r1 = r2
    /\ r1.tag = "Err" => r1.kind = r2.kind

\* position i of s holds whitespace that comes after a digit of a number
\* (only whitespace lies between that digit and i) and before the next digit
\* or the first letter of the unit
InsideNumber(s, i) ==
    /\ IsWhitespace(s[i])
    /\ \E j \in 1..(i - 1) :
          /\ IsDigit(s[j])
          /\ \A k \in (j + 1)..(i - 1) : IsWhitespace(s[k])
    /\ \E j \in (i + 1)..Len(s) :
          /\ IsDigit(s[j]) \/ IsAsciiLetter(s[j])
          /\ \A k \in (i + 1)..(j - 1) : IsWhitespace(s[k])

\* s without the whitespace inside its numbers
RECURSIVE JoinNumbersFrom(_, _)
JoinNumbersFrom(s, i) ==
    IF i > Len(s) THEN <<>>
    ELSE (IF InsideNumber(s, i) THEN <<>> ELSE <<s[i]>>)
         \o JoinNumbersFrom(s, i + 1)

JoinNumbers(s) == JoinNumbersFrom(s, 1)

(***************************************************************************)
(* C1: parse_duration(format_duration(d).to_string()) = Ok(d) for every    *)
(* Duration d, those with a microseconds component included.               *)
(* Violated: the rendering of a d with microseconds holds U+00B5, which    *)
(* the number loop of parse rejects as InvalidCharacter.                   *)
(***************************************************************************)
C1_RoundTrip ==
    (given.kind = "format" /\ Done)
        => result = Ok(given.val.secs, given.val.nanos)

(***************************************************************************)
(* C2: for every documented spelling u and number n whose product with the *)
(* multiplier fits 64 bits, parse_duration("<n><u>") is Ok of exactly n    *)
(* times the documented multiplier.                                        *)
(* Violated: "us" is not matched by parse_unit (UnknownUnit), and U+00B5   *)
(* never reaches parse_unit (InvalidCharacter).                            *)
(***************************************************************************)
C2_DocumentedUnitTable ==
    (/\ given.kind = "tokens"
     /\ Len(given.toks) = 1
     /\ given.toks[1].unit \in DocumentedSpellings
     /\ BLe(BMul(Number(given.toks[1].num),
                 BFromInt(DocumentedUnit(given.toks[1].unit).k)), U64_MAX)
     /\ Done)
        => result = OkOfNanos(TokenNanos(given.toks[1],
                                       DocumentedUnit(given.toks[1].unit)))

(***************************************************************************)
(* C3: every call of parse_duration returns Ok or Err, and when the sum of *)
(* the tokens exceeds the 64-bit range of seconds the result is            *)
(* Err(NumberOverflow), never an abnormal abort.                           *)
(* Violated: an accumulator of (u64::MAX, 1_000_000_000) is handed to      *)
(* Duration::new, whose carry panics.                                      *)
(***************************************************************************)
AsciiCodeSpellings ==
    {u \in CodeSpellings : \A i \in 1..Len(u) : IsAsciiLetter(u[i])}

C3_OkOrErrOnOverflow ==
    Done =>
        /\ result.tag \in {"Ok", "Err"}
        /\ (/\ given.kind = "tokens"
            /\ \A i \in 1..Len(given.toks) :
                  given.toks[i].unit \in AsciiCodeSpellings
            /\ BLt(U64_MAX,
                   BDivModFactors(SumNanos(given.toks),
                                  <<10000, 10000, 10>>)[1]))
              => result = ErrNumberOverflow

(***************************************************************************)
(* C4: the offset of Err(NumberExpected(k)) is the byte offset of the      *)
(* character that is neither a digit nor whitespace and was found where a  *)
(* number must start, also after skipped whitespace.                       *)
(* Violated: parse_first_char reports the offset it read on entry, before  *)
(* the whitespace it skips.                                                *)
(***************************************************************************)
C4_NumberExpectedOffset ==
    (Done /\ result.tag = "Err" /\ result.kind = "NumberExpected")
        => /\ iter >= 1
           /\ ~IsDigit(src[iter]) /\ ~IsWhitespace(src[iter])
           /\ result.offset = ByteLen(SubSeq(src, 1, iter - 1))

(***************************************************************************)
(* C5, as claimed: an input with whitespace after a digit of a number and  *)
(* before the next digit or the unit's first letter is not parsed Ok.      *)
(* Violated: "1 2s" is Ok(12 s).                                           *)
(***************************************************************************)
C5_WhitespaceInNumberRejected ==
    (Done /\ \E i \in 1..Len(src) : InsideNumber(src, i))
        => result.tag # "Ok"

(***************************************************************************)
(* C5, amended: whitespace after a digit of a number and before the next   *)
(* digit or the unit's first letter is skipped; the input has the outcome  *)
(* of the input with that whitespace removed (the same Ok value or an      *)
(* error of the same variant), and "1 2s" is Ok(12 s).                     *)
(***************************************************************************)
C5_WhitespaceInNumberSkipped ==
    Done
        => /\ SameOutcome(result, parse_duration(JoinNumbers(src)))
           /\ src = <<"1", " ", "2", "s">> => result = Ok(<<12>>, 0)

C5_Witness ==
    /\ Done
    /\ src = <<"1", " ", "2", "s">>
    /\ JoinNumbers(src) = <<"1", "2", "s">>
    /\ result = Ok(<<12>>, 0)

(***************************************************************************)
(* C6: when parse_duration returns Err(UnknownUnit{start, end, unit,       *)
(* value}): start <= end <= len(input); unit is the byte slice             *)
(* input[start..end]; the slice is the maximal run of ASCII letters after  *)
(* the number (empty, with start = end, when no unit follows); unit is not *)
(* a spelling of the unit table; value is the number before it (its        *)
(* digits, the whitespace the parser skips among and after them left       *)
(* out).  parse_duration("1xyz") is UnknownUnit{1, 4, "xyz", 1}.           *)
(* Violated: "1us" is UnknownUnit{1, 3, "us", 1}, and "us" is a spelling   *)
(* of the documented unit table.                                           *)
(***************************************************************************)
\* the index of the character that starts at byte b of s (Len(s) + 1 for
\* the end of s), 0 when b is no character boundary
CharIndex(s, b) ==
    IF \E i \in 1..(Len(s) + 1) : ByteLen(SubSeq(s, 1, i - 1)) = b
    THEN CHOOSE i \in 1..(Len(s) + 1) : ByteLen(SubSeq(s, 1, i - 1)) = b
    ELSE 0

\* the digits of the number that ends before index i of s
RECURSIVE DigitsBefore(_, _)
DigitsBefore(s, i) ==
    IF i <= 1 THEN <<>>
    ELSE IF IsDigit(s[i - 1]) THEN DigitsBefore(s, i - 1) \o <<s[i - 1]>>
    ELSE IF IsWhitespace(s[i - 1]) THEN DigitsBefore(s, i - 1)
    ELSE <<>>

\* the diagnostics of C6, with table the spellings of the unit table
UnknownUnitDiagnostics(table) ==
    /\ (Done /\ result.tag = "Err" /\ result.kind = "UnknownUnit") =>
          LET first == CharIndex(src, result.start)
              last == CharIndex(src, result.end)
          IN /\ result.start <= result.end
             /\ result.end <= ByteLen(src)
             /\ first >= 1 /\ last >= first
             /\ result.unit = SubSeq(src, first, last - 1)
             /\ \A i \in first..(last - 1) : IsAsciiLetter(src[i])
             /\ first > 1 /\ ~IsAsciiLetter(src[first - 1])
             /\ last <= Len(src) => ~IsAsciiLetter(src[last])
             /\ result.unit = <<>> => last = Len(src) + 1
             /\ result.unit \notin table
             /\ result.value = Number(DigitsBefore(src, first))
    /\ (Done /\ src = <<"1", "x", "y", "z">>)
          => result = ErrUnknownUnit(1, 4, <<"x", "y", "z">>, <<1>>)

C6_UnknownUnitDiagnostics == UnknownUnitDiagnostics(DocumentedSpellings)

\* The diagnostics do hold with the spellings parse_unit matches as the table.
UnknownUnitDiagnosticsOfMatchedSpellings ==
    UnknownUnitDiagnostics(CodeSpellings)

(***************************************************************************)
(* C7: format_duration(d) renders "0s" when d is zero; otherwise the       *)
(* components years, months, days, hours, minutes, seconds, milliseconds,  *)
(* microseconds, nanoseconds that are not zero, in that order, each as     *)
(* <value><suffix>, year/month/day with an "s" exactly when value > 1,     *)
(* joined by one space, with no zero component and no space at either end. *)
(***************************************************************************)
Component(value, suffix, plural) ==
    [value |-> value, suffix |-> suffix, plural |-> plural]

Components(d) ==
    LET yq == BDivModFactors(d.secs, <<7200, 4383>>)    \* secs / 31557600
        rest == yq[2]                                   \* secs % 31557600
    IN <<Component(yq[1], <<"y", "e", "a", "r">>, TRUE),
         Component(BFromInt(rest \div 2630016), <<"m", "o", "n", "t", "h">>, TRUE),
         Component(BFromInt((rest % 2630016) \div 86400), <<"d", "a", "y">>, TRUE),
         Component(BFromInt(((rest % 2630016) % 86400) \div 3600), <<"h">>, FALSE),
         Component(BFromInt(((rest % 2630016) % 3600) \div 60), <<"m">>, FALSE),
         Component(BFromInt((rest % 2630016) % 60), <<"s">>, FALSE),
         Component(BFromInt(d.nanos \div 1000000), <<"m", "s">>, FALSE),
         Component(BFromInt((d.nanos \div 1000) % 1000), <<"micro", "s">>, FALSE),
         Component(BFromInt(d.nanos % 1000), <<"n", "s">>, FALSE)>>

NonZero(c) == c.value # <<>>

ComponentText(c) ==
    DecimalU64(c.value) \o c.suffix
        \o (IF c.plural /\ BLt(<<1>>, c.value) THEN <<"s">> ELSE <<>>)

RECURSIVE JoinBySpace(_)
JoinBySpace(cs) ==
    IF cs = <<>> THEN <<>>
    ELSE IF Len(cs) = 1 THEN ComponentText(cs[1])
    ELSE ComponentText(cs[1]) \o <<" ">> \o JoinBySpace(Tail(cs))

CanonicalRendering(d) ==
    IF d.secs = <<>> /\ d.nanos = 0 THEN <<"0", "s">>
    ELSE JoinBySpace(SelectSeq(Components(d), NonZero))

C7_CanonicalRendering ==
    (given.kind = "format" /\ pc # "format")
        => src = CanonicalRendering(given.val)

C7_Witness ==
    /\ given.kind = "format"
    /\ pc # "format"
    /\ given.val = [secs |-> BFromInt(31557600 + 2 * 2630016 + 23 * 3600),
                    nanos |-> 999000]
    /\ src = <<"1", "y", "e", "a", "r", " ", "2", "m", "o", "n", "t", "h", "s", " ", "2", "3", "h", " ", "9", "9", "9", "micro", "s">>

(***************************************************************************)
(* C8: after each unit is applied by parse_unit, the nanoseconds of the    *)
(* accumulator are strictly less than 1_000_000_000.                       *)
(* Violated: parse_unit carries only when nsec > 1_000_000_000, so exactly *)
(* 1_000_000_000 stays in the accumulator.                                 *)
(***************************************************************************)
C8_AccumulatorNormalized == BLt(current[2], BFromInt(NANOS_PER_SEC))

(***************************************************************************)
(* C9: for a sequence of <number><unit> tokens whose units all resolve in  *)
(* the table of parse_unit, parsed without a 64-bit overflow, the result   *)
(* is Ok(S, N) with S * 1_000_000_000 + N the exact sum of number times    *)
(* multiplier over the tokens, and N < 1_000_000_000.                      *)
(* Violated: "micro s" (U+00B5 s) is in the table of parse_unit, and a     *)
(* token with it is rejected as InvalidCharacter before parse_unit.        *)
(***************************************************************************)
C9_ExactSum ==
    (/\ given.kind = "tokens"
     /\ \A i \in 1..Len(given.toks) : given.toks[i].unit \in CodeSpellings
     /\ Done
     /\ result # ErrNumberOverflow
     /\ result # Panicked)
        => /\ result = OkOfNanos(SumNanos(given.toks))
           /\ result.nanos < NANOS_PER_SEC

(***************************************************************************)
(* C10: a sequence of <number><unit> tokens has the same result (the same  *)
(* Ok value, or an error of the same variant) written with whitespace      *)
(* between a unit and the next number as written with none;                *)
(* parse_duration("2h37min") = parse_duration("2h 37min") = Ok(9420 s).    *)
(***************************************************************************)
Unseparated(ts) == [i \in 1..Len(ts) |-> [ts[i] EXCEPT !.sep = <<>>]]

C10_SeparatorIndependence ==
    (given.kind = "tokens" /\ Done)
        => /\ SameOutcome(result,
                          parse_duration(Render(Unseparated(given.toks))))
           /\ Render(Unseparated(given.toks))
                  = <<"2", "h", "3", "7", "m", "i", "n">>
                => result = Ok(<<9420>>, 0)

C10_Witness ==
    /\ Done
    /\ src = <<"1", "h", " ", "2", "m", " ", "3", "s">>
    /\ given.kind = "tokens"
    /\ parse_duration(<<"1", "h", "2", "m", "3", "s">>) = Ok(<<3723>>, 0)
    /\ result = Ok(<<3723>>, 0)

====
